---- MODULE Spec2Model ----
(***************************************************************************)
(* btrfs-clone: a run of the program as a state machine.                   *)
(*                                                                         *)
(* The program is sequential.  Its state is the position of the main       *)
(* program (pc, idx, todo), its data (opts, subvols, done, exitfuncs) and  *)
(* the two file systems it drives through external commands (src, dst,     *)
(* mounted).  Every external command the program issues is appended to     *)
(* log, so that ordering properties are state predicates.                  *)
(*                                                                         *)
(* External commands may fail (non-zero exit status) and the process may   *)
(* be terminated by a signal whose default action is to terminate          *)
(* (atexit handlers do not run then).                                      *)
(***************************************************************************)
EXTENDS Integers, Sequences, FiniteSets, TLC

VARIABLES
    opts,       \* parsed command line (make_args / parse_args)
    uuids,      \* file system uuid reported for opts.old and opts.new
    fsInv,      \* the subvolumes the source file system holds, in list order
    pc,         \* position of the main program
    idx,        \* loop index of the loop pc is in
    todo,       \* pending send_subvol_snap calls, in call order
    subvols,    \* the list returned by get_subvols (sorted in place later)
    done,       \* move_to_tree_pos: ids placed in this sweep
    new_mnt,    \* base of all jobs after send_root: "new" or "new_snap"
    exitfuncs,  \* atexit registrations, in registration order
    mounted,    \* temporary root mounts currently mounted
    src,        \* source fs: ids currently ro, root snapshot present
    dst,        \* destination fs
    log,        \* external commands issued so far, in order
    status,     \* exit status of the process, -1 while main is running
    pipe        \* the send | receive pipeline of the do_send_recv in progress

\* the state of the main program and of the two file systems
mainvars == <<opts, uuids, fsInv, pc, idx, todo, subvols, done, new_mnt,
              exitfuncs, mounted, src, dst, log, status>>

vars == <<opts, uuids, fsInv, pc, idx, todo, subvols, done, new_mnt,
          exitfuncs, mounted, src, dst, log, status, pipe>>

----------------------------------------------------------------------------
(* Bounds *)

\* subvolumes of the source file system in the specification of whole runs
MaxSubvols == 2
\* subvolumes in the specification of the snapshot planner
SnapSubvols == 4
\* subvolumes in the specification of the tree placer
PlaceSubvols == 3
\* subvolumes in the specification of a second clone
RerunSubvols == 2
\* external commands that exit non-zero in one run
MaxFaults == 1
\* units of data an OS pipe holds before a write to it blocks
PipeCap == 1
\* units of data a child of the pipeline writes to one of its streams
MaxData == 2

----------------------------------------------------------------------------
(* Program constants *)

\* parent_id of a subvolume contained directly in the top level
TopLevelId == 5
\* number of inventoried subvolumes the parent strategy iterates over
ParentSlice == 2
\* id of the first subvolume btrfs creates in a file system
FirstSubvolId == 256

\* parent_uuid "-" (Subvol.check_show stores None)
NoUuid == 0
\* a uuid that names no subvolume of the source file system
ForeignUuid == 1
\* opts.verbose from which the children's stderr goes to log files
LogVerbosity == 2

----------------------------------------------------------------------------
(* Inventories: what "btrfs subvolume list -t --sort=ogen" and "show"      *)
(* report.  btrfs allocates ids in creation order, so ogen does not        *)
(* decrease with id, and a snapshot has a larger id than its origin.       *)
(* A subvolume can be renamed into a subvolume created after it, so        *)
(* parent_id is any other id as long as containment is a forest.           *)

IdOf(i) == FirstSubvolId + i - 1

RECURSIVE Contained(_, _, _)
\* following parent_id from id for at most n steps reaches the top level
Contained(pid, id, n) ==
    IF id = TopLevelId THEN TRUE
    ELSE IF n = 0 THEN FALSE
    ELSE Contained(pid, pid[id], n - 1)

\* ogens over n subvolumes: one transaction each, or (ties) two subvolumes
\* created in each transaction
OgenChoices(n, ties) ==
    { [i \in 1..n |-> i] } \cup
    (IF ties THEN { [i \in 1..n |-> (i + 1) \div 2] } ELSE {})

\* uuids: "any" (absent, foreign or an older subvolume), "local" (absent or
\* an older subvolume), "none"; nested: parent_id other than the top level;
\* ros: "any" subset is ro, "uniform" (none or all), "none"
Inventories(n, uuids_, nested, ros_, ties) ==
    LET ids == { IdOf(i) : i \in 1..n } IN
    { [i \in 1..n |->
          [id          |-> IdOf(i),
           uuid        |-> IdOf(i),
           ogen        |-> g[i],
           parent_id   |-> pid[IdOf(i)],
           parent_uuid |-> pu[i],
           ro          |-> IdOf(i) \in ros]] :
        g \in OgenChoices(n, ties),
        pid \in { q \in [ids -> IF nested THEN ids \cup {TopLevelId}
                                          ELSE {TopLevelId}] :
                    \A id \in ids : Contained(q, id, n) },
        pu \in { u \in [1..n -> CASE uuids_ = "any" -> ids \cup {NoUuid, ForeignUuid}
                                  [] uuids_ = "local" -> ids \cup {NoUuid}
                                  [] OTHER -> {NoUuid}] :
                    \A i \in 1..n : u[i] \in ids => u[i] < IdOf(i) },
        ros \in CASE ros_ = "any" -> SUBSET ids
                  [] ros_ = "uniform" -> {{}, ids}
                  [] OTHER -> {{}} }

\* entries of the top level of the source, as os.listdir of the root
\* snapshot returns them; samedev: os.lstat reports the snapshot's device
RootEntries ==
    << [name |-> "etc",  samedev |-> TRUE],
       [name |-> "sub",  samedev |-> FALSE],
       [name |-> "home", samedev |-> TRUE] >>

----------------------------------------------------------------------------
(* Helpers *)

Ids(svs) == { svs[i].id : i \in 1..Len(svs) }

ById(svs, id) == svs[CHOOSE i \in 1..Len(svs) : svs[i].id = id]

Ev(op, side, sv, arg, clones, run, ok) ==
    [op |-> op, side |-> side, sv |-> sv, arg |-> arg, clones |-> clones,
     run |-> run, ok |-> ok]

\* subprocess.check_call raising, or any other uncaught exception: the
\* interpreter prints the traceback, runs the atexit handlers, exits with 1
Abort ==
    /\ pc' = "exit"
    /\ status' = 1

Min(a, b) == IF a < b THEN a ELSE b

\* commands that have failed so far
Faults == Cardinality({ i \in 1..Len(log) : ~log[i].ok })

\* the exit statuses the next command may have (TRUE: zero), k commands of
\* the same step having failed before it
Outcomes(k) == IF Faults + k < MaxFaults THEN BOOLEAN ELSE {TRUE}

----------------------------------------------------------------------------
(* Command line *)

\* mutant: -t declared with action='store_true'
ParseToplevel_StoreTrue(t_given) == t_given

\* ArgumentParser of make_args: -t is action='store_false', so opts.toplevel
\* is True unless -t is given
ParseToplevel(t_given) == ~t_given

\* the command lines with -n, -t and --snap-base drawn from the given sets
OptChoices(drys, ts, bases) ==
    { [dry_run   |-> d,
       t_given   |-> t,
       toplevel  |-> ParseToplevel(t),
       strategy  |-> s,
       snap_base |-> b] :
        d \in drys, t \in ts, s \in {"parent", "snapshot"}, b \in bases }

----------------------------------------------------------------------------
(* __main__: temporary root mounts and the same-filesystem guard *)

\* mount_root_subvol(opts.old): mount, then register the unmount
MountOld ==
    /\ pc = "mount_old"
    /\ \E ok \in Outcomes(0) :
         /\ log' = Append(log, Ev("mount", "src", 0, 0, {}, TRUE, ok))
         /\ IF ok
            THEN /\ mounted' = mounted \cup {"old"}
                 /\ exitfuncs' = Append(exitfuncs, "umount_old")
                 /\ pc' = "mount_new"
                 /\ UNCHANGED status
            ELSE /\ Abort
                 /\ UNCHANGED <<mounted, exitfuncs>>
    /\ UNCHANGED <<pipe, opts, uuids, fsInv, idx, todo, subvols, done, new_mnt, src, dst>>

\* mount_root_subvol(opts.new)
MountNew ==
    /\ pc = "mount_new"
    /\ \E ok \in Outcomes(0) :
         /\ log' = Append(log, Ev("mount", "dst", 0, 0, {}, TRUE, ok))
         /\ IF ok
            THEN /\ mounted' = mounted \cup {"new"}
                 /\ exitfuncs' = Append(exitfuncs, "umount_new")
                 /\ pc' = "uuid_check"
                 /\ UNCHANGED status
            ELSE /\ Abort
                 /\ UNCHANGED <<mounted, exitfuncs>>
    /\ UNCHANGED <<pipe, opts, uuids, fsInv, idx, todo, subvols, done, new_mnt, src, dst>>

\* mutant: the uuids are not compared
AfterMounts_NoGuard(old_uuid, new_uuid) == "send_root"

\* the guard of __main__: where the run goes after both mounts
AfterMounts(old_uuid, new_uuid) ==
    IF old_uuid = new_uuid THEN "raise" ELSE "send_root"

UuidCheck ==
    /\ pc = "uuid_check"
    /\ IF AfterMounts(uuids.old, uuids.new) = "raise"
       THEN Abort
       ELSE /\ pc' = "root_snapshot"
            /\ UNCHANGED status
    /\ UNCHANGED <<pipe, opts, uuids, fsInv, idx, todo, subvols, done, new_mnt,
                   exitfuncs, mounted, src, dst, log>>

----------------------------------------------------------------------------
(* send_root *)

\* lines 303-308: the snapshot is made with subprocess.check_call, which
\* does not look at opts.dry_run; then its deletion is registered
RootSnapshot ==
    /\ pc = "root_snapshot"
    /\ \E ok \in Outcomes(0) :
         /\ log' = Append(log, Ev("snapshot", "src", 0, 0, {}, TRUE, ok))
         /\ IF ok
            THEN /\ src' = [src EXCEPT !.snap = TRUE]
                 /\ exitfuncs' = Append(exitfuncs, "delete_snap")
                 /\ pc' = "root_send"
                 /\ UNCHANGED status
            ELSE /\ Abort
                 /\ UNCHANGED <<src, exitfuncs>>
    /\ UNCHANGED <<pipe, opts, uuids, fsInv, idx, todo, subvols, done, new_mnt, mounted, dst>>

\* lines 309-310: do_send_recv(old_snap, new), then ro=false on new_snap
RootSendRecv ==
    /\ pc = "root_send"
    /\ IF opts.dry_run
       THEN /\ log' = log \o << Ev("send", "src", 0, 0, {}, FALSE, TRUE),
                                Ev("propset", "dst", 0, 0, {}, FALSE, TRUE) >>
            /\ pc' = "root_place"
            /\ UNCHANGED <<dst, status>>
       ELSE \E sent \in Outcomes(0), set \in Outcomes(0) :
            LET e1 == Ev("send", "src", 0, 0, {}, TRUE, sent)
                e2 == Ev("propset", "dst", 0, 0, {}, TRUE, set)
            IN  IF ~sent
                THEN /\ set
                     /\ log' = Append(log, e1)
                     /\ Abort
                     /\ UNCHANGED dst
                ELSE /\ log' = log \o <<e1, e2>>
                     /\ dst' = [dst EXCEPT !.snap = IF set THEN "rw" ELSE "ro"]
                     /\ IF set
                        THEN pc' = "root_place" /\ UNCHANGED status
                        ELSE Abort
    /\ UNCHANGED <<pipe, opts, uuids, fsInv, idx, todo, subvols, done, new_mnt,
                   exitfuncs, mounted, src>>

\* the entries the loop of lines 315-322 hands to mv, in listdir order
EntriesToMove == SelectSeq(RootEntries, LAMBDA e : e.samedev)

MvEvents(n, failed) ==
    [i \in 1..n |-> Ev("mv", "dst", 0, i, {}, ~opts.dry_run, ~(failed /\ i = n))]

\* lines 312-328: merge the received snapshot into the destination root and
\* delete it (opts.toplevel), or keep it and return its path
RootPlace ==
    /\ pc = "root_place"
    /\ IF opts.toplevel
       THEN LET n == Len(EntriesToMove)
                names(k) == { EntriesToMove[i].name : i \in 1..k }
            IN  IF opts.dry_run
                THEN /\ log' = log \o MvEvents(n, FALSE)
                               \o << Ev("delete", "dst", 0, 0, {}, FALSE, TRUE) >>
                     /\ new_mnt' = "new"
                     /\ pc' = "get_subvols"
                     /\ UNCHANGED <<dst, status>>
                ELSE \/ \* every mv and the delete succeed
                        /\ log' = log \o MvEvents(n, FALSE)
                                  \o << Ev("delete", "dst", 0, 0, {}, TRUE, TRUE) >>
                        /\ dst' = [dst EXCEPT !.top = names(n), !.snap = "absent"]
                        /\ new_mnt' = "new"
                        /\ pc' = "get_subvols"
                        /\ UNCHANGED status
                     \/ \* the k-th mv fails
                        \E k \in 1..n :
                        /\ FALSE \in Outcomes(0)
                        /\ log' = log \o MvEvents(k, TRUE)
                        /\ dst' = [dst EXCEPT !.top = names(k - 1)]
                        /\ Abort
                        /\ UNCHANGED new_mnt
                     \/ \* the delete fails
                        /\ FALSE \in Outcomes(0)
                        /\ log' = log \o MvEvents(n, FALSE)
                                  \o << Ev("delete", "dst", 0, 0, {}, TRUE, FALSE) >>
                        /\ dst' = [dst EXCEPT !.top = names(n)]
                        /\ Abort
                        /\ UNCHANGED new_mnt
       ELSE /\ new_mnt' = "new_snap"
            /\ pc' = "get_subvols"
            /\ UNCHANGED <<dst, log, status>>
    /\ UNCHANGED <<pipe, opts, uuids, fsInv, idx, todo, subvols, done,
                   exitfuncs, mounted, src>>

----------------------------------------------------------------------------
(* Read-only discipline *)

\* mutant: set_ro without the early return
SetRoSkips_Never(sv) == FALSE

\* Subvol.set_ro: "Never change a subvol that was already ro"
SetRoSkips(sv) == sv.ro

Reverse(s) == [i \in 1..Len(s) |-> s[Len(s) + 1 - i]]

\* mutant: the lock loop stops one subvolume short
RoOrder_DropsLast(yesno, svs) ==
    IF yesno THEN SubSeq(svs, 1, Len(svs) - 1) ELSE Reverse(svs)

\* set_all_ro: the order in which the list is visited
RoOrder(yesno, svs) == IF yesno THEN svs ELSE Reverse(svs)

\* mutant: the handler of lines 252-258 re-raises whatever yesno is
RoFailureRaises_Always(yesno) == TRUE

\* set_all_ro, lines 252-258: a failing property set is re-raised when
\* locking; when unlocking it is printed and the loop continues
RoFailureRaises(yesno) == yesno

\* send_subvols, lines 446-447: the inventory is taken after send_root has
\* returned, and the reversal is registered before the lock is taken
GetSubvols ==
    /\ pc = "get_subvols"
    /\ \E ok \in Outcomes(0) :
         /\ log' = Append(log, Ev("list", "src", 0, 0, {}, TRUE, ok))
         /\ IF ok
            THEN /\ subvols' = fsInv
                 /\ exitfuncs' = Append(exitfuncs, "set_all_ro_false")
                 /\ pc' = "lock"
                 /\ idx' = 1
                 /\ UNCHANGED status
            ELSE /\ Abort
                 /\ UNCHANGED <<subvols, exitfuncs, idx>>
    /\ UNCHANGED <<pipe, opts, uuids, fsInv, todo, done, new_mnt, mounted, src, dst>>

\* where send_subvols goes once set_all_ro(True) has returned
Strategy == IF opts.strategy = "parent" THEN "parent" ELSE "snap_init"

\* set_all_ro(True, subvols, old_mnt): one iteration of the loop
SetAllRoTrue ==
    /\ pc = "lock"
    /\ IF idx > Len(RoOrder(TRUE, subvols))
       THEN /\ pc' = Strategy
            /\ idx' = 1
            /\ UNCHANGED <<src, log, status>>
       ELSE LET sv == RoOrder(TRUE, subvols)[idx] IN
            IF SetRoSkips(sv)
            THEN /\ idx' = idx + 1
                 /\ UNCHANGED <<pc, src, log, status>>
            ELSE IF opts.dry_run
            THEN /\ log' = Append(log, Ev("propset", "src", sv.id, 1, {}, FALSE, TRUE))
                 /\ idx' = idx + 1
                 /\ UNCHANGED <<pc, src, status>>
            ELSE \E ok \in Outcomes(0) :
                 /\ log' = Append(log, Ev("propset", "src", sv.id, 1, {}, TRUE, ok))
                 /\ IF ~ok /\ RoFailureRaises(TRUE)
                    THEN /\ Abort
                         /\ UNCHANGED <<src, idx>>
                    ELSE /\ src' = IF ok THEN [src EXCEPT !.ro = @ \cup {sv.id}]
                                         ELSE src
                         /\ idx' = idx + 1
                         /\ UNCHANGED <<pc, status>>
    /\ UNCHANGED <<pipe, opts, uuids, fsInv, todo, subvols, done, new_mnt,
                   exitfuncs, mounted, dst>>

\* set_all_ro(False, subvols, old_mnt), run as exit action: one iteration;
\* a failing property set is printed and the loop continues
SetAllRoFalse ==
    /\ pc = "unlock"
    /\ IF idx > Len(RoOrder(FALSE, subvols))
       THEN /\ pc' = "exit"
            /\ idx' = 0
            /\ UNCHANGED <<src, log>>
       ELSE LET sv == RoOrder(FALSE, subvols)[idx] IN
            IF SetRoSkips(sv)
            THEN /\ idx' = idx + 1
                 /\ UNCHANGED <<pc, src, log>>
            ELSE IF opts.dry_run
            THEN /\ log' = Append(log, Ev("propset", "src", sv.id, 0, {}, FALSE, TRUE))
                 /\ idx' = idx + 1
                 /\ UNCHANGED <<pc, src>>
            ELSE \E ok \in Outcomes(0) :
                 /\ log' = Append(log, Ev("propset", "src", sv.id, 0, {}, TRUE, ok))
                 /\ src' = IF ok THEN [src EXCEPT !.ro = @ \ {sv.id}] ELSE src
                 /\ IF ~ok /\ RoFailureRaises(FALSE)
                    THEN \* the exit action ends; the remaining ones still run
                         /\ pc' = "exit"
                         /\ idx' = 0
                    ELSE /\ idx' = idx + 1
                         /\ UNCHANGED pc
    /\ UNCHANGED <<pipe, opts, uuids, fsInv, todo, subvols, done, new_mnt,
                   exitfuncs, mounted, dst, status>>

----------------------------------------------------------------------------
(* Parent strategy *)

RECURSIVE Parents(_, _, _)
\* parents_getter._getter: the chain of ancestors found by parent_uuid in
\* the uuid index, nearest first (n bounds the walk by the inventory size)
Parents(x, svs, n) ==
    IF x.parent_uuid = NoUuid \/ n = 0 THEN <<>>
    ELSE IF \A i \in 1..Len(svs) : svs[i].uuid # x.parent_uuid THEN <<>>
    ELSE LET p == svs[CHOOSE i \in 1..Len(svs) : svs[i].uuid = x.parent_uuid]
         IN  <<p.id>> \o Parents(p, svs, n - 1)

\* mutant: the loop runs over the slice newest first
ParentLoop_Reversed(svs) == Reverse(SubSeq(svs, 1, Min(ParentSlice, Len(svs))))

\* send_subvols_parent: the subvolumes the loop iterates over
ParentLoop(svs) == SubSeq(svs, 1, Min(ParentSlice, Len(svs)))

\* send_subvols_parent: one iteration (send_subvol_parent, then set_ro)
SendSubvolParent ==
    /\ pc = "parent"
    /\ IF idx > Len(ParentLoop(subvols))
       THEN /\ pc' = "exit"
            /\ status' = 0
            /\ idx' = 0
            /\ UNCHANGED <<dst, log>>
       ELSE LET sv == ParentLoop(subvols)[idx]
                anc == Parents(sv, subvols, Len(subvols))
                p == IF anc = <<>> THEN 0 ELSE anc[1]
                cl == { anc[i] : i \in 1..Len(anc) }
                job(run, ok) == Ev("send", "src", sv.id, p, cl, run, ok)
                unset(run, ok) == Ev("propset", "dst", sv.id, 0, {}, run, ok)
            IN
            IF opts.dry_run
            THEN /\ log' = log \o <<job(FALSE, TRUE)>>
                           \o (IF SetRoSkips(sv) THEN <<>> ELSE <<unset(FALSE, TRUE)>>)
                 /\ idx' = idx + 1
                 /\ UNCHANGED <<pc, dst, status>>
            ELSE \/ \* send or receive fails
                    /\ FALSE \in Outcomes(0)
                    /\ log' = Append(log, job(TRUE, FALSE))
                    /\ Abort
                    /\ UNCHANGED <<dst, idx>>
                 \/ \* received; ro cleared unless the original was ro
                    \E ok \in Outcomes(0) :
                    /\ SetRoSkips(sv) => ok
                    /\ log' = log \o <<job(TRUE, TRUE)>>
                              \o (IF SetRoSkips(sv) THEN <<>> ELSE <<unset(TRUE, ok)>>)
                    /\ dst' = [dst EXCEPT
                                 !.goal = @ \cup {sv.id},
                                 !.ro = IF ~SetRoSkips(sv) /\ ok
                                        THEN @ \ {sv.id} ELSE @ \cup {sv.id}]
                    /\ IF ok
                       THEN idx' = idx + 1 /\ UNCHANGED <<pc, status>>
                       ELSE Abort /\ UNCHANGED idx
    /\ UNCHANGED <<pipe, opts, uuids, fsInv, todo, subvols, done, new_mnt,
                   exitfuncs, mounted, src>>

----------------------------------------------------------------------------
(* Snapshot strategy *)

\* the sort key of line 378, compared
KeyLess(a1, a2, b1, b2) == a1 < b1 \/ (a1 = b1 /\ a2 < b2)

\* mutant: the sort without reverse = True
SnapsOf_OldestFirst(sv, svs) ==
    SortSeq(SelectSeq(svs, LAMBDA x : x.parent_uuid = sv.uuid),
            LAMBDA a, b : KeyLess(a.ogen, a.id, b.ogen, b.id))

\* lines 377-378: the snapshots of sv, newest first
SnapsOf(sv, svs) ==
    SortSeq(SelectSeq(svs, LAMBDA x : x.parent_uuid = sv.uuid),
            LAMBDA a, b : KeyLess(b.ogen, b.id, a.ogen, a.id))

RECURSIVE SnapCalls(_, _, _), SnapLoop(_, _, _)
\* send_subvol_snap(sv, ..., parent): the calls it makes, in call order
SnapCalls(sv, parent, svs) ==
    <<[sv |-> sv.id, parent |-> parent]>> \o SnapLoop(SnapsOf(sv, svs), sv.id, svs)

\* lines 380-383: the loop over snaps, prev being the last one sent
SnapLoop(snaps, prev, svs) ==
    IF snaps = <<>> THEN <<>>
    ELSE SnapCalls(Head(snaps), prev, svs)
         \o SnapLoop(Tail(snaps), Head(snaps).id, svs)

\* line 431: the subvolumes send_subvols_snap starts the descent from
SnapRoots(svs) == SelectSeq(svs, LAMBDA x : x.parent_uuid = NoUuid)

RECURSIVE SnapPlan(_, _)
SnapPlan(roots, svs) ==
    IF roots = <<>> THEN <<>>
    ELSE SnapCalls(Head(roots), 0, svs) \o SnapPlan(Tail(roots), svs)

\* send_subvols_snap, lines 426-431: make the staging root
SnapInit ==
    /\ pc = "snap_init"
    /\ dst' = [dst EXCEPT !.svbase = @ \/ ~opts.dry_run]
    /\ todo' = SnapPlan(SnapRoots(subvols), subvols)
    /\ pc' = "snap"
    /\ UNCHANGED <<pipe, opts, uuids, fsInv, idx, subvols, done, new_mnt,
                   exitfuncs, mounted, src, log, status>>

\* send_subvol_snap, lines 359-375, for the next call
SendSubvolSnap ==
    /\ pc = "snap"
    /\ IF todo = <<>>
       THEN /\ pc' = "place_init"
            /\ UNCHANGED <<todo, dst, log, status>>
       ELSE LET call == Head(todo)
                sv == ById(subvols, call.sv)
                cl == IF call.parent = 0 THEN {} ELSE {call.parent}
                job(run, ok) == Ev("send", "src", sv.id, call.parent, cl, run, ok)
                unset(ok) == Ev("propset", "dst", sv.id, 0, {}, TRUE, ok)
                dirs == IF opts.dry_run THEN dst.dirs ELSE dst.dirs \cup {sv.id}
            IN
            IF sv.id \in dst.staged
            THEN \* "exists, not sending": printed, nothing is run
                 /\ log' = Append(log, Ev("exists", "dst", sv.id, 0, {}, FALSE, TRUE))
                 /\ todo' = Tail(todo)
                 /\ dst' = [dst EXCEPT !.dirs = dirs]
                 /\ UNCHANGED <<pc, status>>
            ELSE IF opts.dry_run
            THEN /\ log' = Append(log, job(FALSE, TRUE))
                 /\ todo' = Tail(todo)
                 /\ UNCHANGED <<pc, dst, status>>
            ELSE \/ \* send or receive fails
                    /\ FALSE \in Outcomes(0)
                    /\ log' = Append(log, job(TRUE, FALSE))
                    /\ dst' = [dst EXCEPT !.dirs = dirs]
                    /\ Abort
                    /\ UNCHANGED todo
                 \/ \* received; ro cleared unless the original was ro
                    \E ok \in Outcomes(0) :
                    /\ sv.ro => ok
                    /\ log' = log \o <<job(TRUE, TRUE)>>
                              \o (IF sv.ro THEN <<>> ELSE <<unset(ok)>>)
                    /\ dst' = [dst EXCEPT
                                 !.dirs = dirs,
                                 !.staged = @ \cup {sv.id},
                                 !.ro = IF ~sv.ro /\ ok
                                        THEN @ \ {sv.id} ELSE @ \cup {sv.id}]
                    /\ IF ok
                       THEN todo' = Tail(todo) /\ UNCHANGED <<pc, status>>
                       ELSE Abort /\ UNCHANGED todo
    /\ UNCHANGED <<pipe, opts, uuids, fsInv, idx, subvols, done, new_mnt,
                   exitfuncs, mounted, src>>

----------------------------------------------------------------------------
(* Tree placer *)

\* line 434: subvols.sort(key = (parent_id, id)), in place
PlaceOrder(svs) ==
    SortSeq(svs, LAMBDA a, b : KeyLess(a.parent_id, a.id, b.parent_id, b.id))

\* mutant: line 402 without the test of the container
CanPlace_Always(sv, placed) == TRUE

\* line 402: the container of sv is in place
CanPlace(sv, placed) == sv.parent_id = TopLevelId \/ sv.parent_id \in placed

\* line 408: whether ro is set again on cur after the mv
Reassert(sv, curIsDir) == sv.ro /\ curIsDir

\* lines 434-435
PlaceInit ==
    /\ pc = "place_init"
    /\ subvols' = PlaceOrder(subvols)
    /\ done' = {}
    /\ pc' = "place"
    /\ idx' = 1
    /\ UNCHANGED <<pipe, opts, uuids, fsInv, todo, new_mnt, exitfuncs, mounted,
                   src, dst, log, status>>

\* move_to_tree_pos(sv, new, dir_fn, done) for the next subvolume; the loop
\* of lines 436-437 drops the value it returns
MoveToTreePos ==
    /\ pc = "place"
    /\ IF idx > Len(subvols)
       THEN /\ pc' = "rmdir_base"
            /\ idx' = 0
            /\ UNCHANGED <<done, dst, log, status>>
       ELSE LET sv == subvols[idx]
                clear(ok) == Ev("propset", "dst", sv.id, 0, {}, TRUE, ok)
                reset(ok) == Ev("propset", "dst", sv.id, 1, {}, TRUE, ok)
                mv(run, ok) == Ev("mv", "dst", sv.id, 0, {}, run, ok)
                pre == IF sv.ro THEN <<clear(TRUE)>> ELSE <<>>
                cleared == IF sv.ro THEN dst.ro \ {sv.id} ELSE dst.ro
            IN
            IF opts.dry_run
            THEN /\ log' = Append(log, mv(FALSE, TRUE))
                 /\ idx' = idx + 1
                 /\ UNCHANGED <<pc, done, dst, status>>
            ELSE IF sv.id \notin dst.staged
            THEN \* lines 395-401: "already moved" (True is returned, done is
                 \* left as it is) or "was not created" (False); printed only
                 /\ log' = Append(log, Ev(IF sv.id \in dst.goal
                                          THEN "already" ELSE "notcreated",
                                          "dst", sv.id, 0, {}, FALSE, TRUE))
                 /\ idx' = idx + 1
                 /\ UNCHANGED <<pc, done, dst, status>>
            ELSE IF CanPlace(sv, done)
            THEN \/ \* clearing ro on the staged copy fails
                    /\ sv.ro
                    /\ FALSE \in Outcomes(0)
                    /\ log' = Append(log, clear(FALSE))
                    /\ Abort
                    /\ UNCHANGED <<idx, done, dst>>
                 \/ \* moved: cur is gone, its directory is removed
                    LET again == Reassert(sv, FALSE) IN
                    \E ok \in Outcomes(0) :
                    /\ again \/ ok
                    /\ log' = log \o pre \o <<mv(TRUE, TRUE)>>
                              \o (IF again THEN <<reset(ok)>> ELSE <<>>)
                    /\ dst' = [dst EXCEPT
                                 !.staged = @ \ {sv.id},
                                 !.goal = @ \cup {sv.id},
                                 !.dirs = @ \ {sv.id},
                                 !.ro = IF again /\ ok
                                        THEN cleared \cup {sv.id} ELSE cleared]
                    /\ done' = done \cup {sv.id}
                    /\ idx' = idx + 1
                    /\ UNCHANGED <<pc, status>>
                 \/ \* the mv fails: cur is still there
                    LET again == Reassert(sv, TRUE) IN
                    \E ok \in Outcomes(1) :
                    /\ FALSE \in Outcomes(0)
                    /\ again \/ ok
                    /\ log' = log \o pre \o <<mv(TRUE, FALSE)>>
                              \o (IF again THEN <<reset(ok)>> ELSE <<>>)
                    /\ dst' = [dst EXCEPT
                                 !.ro = IF again /\ ok
                                        THEN cleared \cup {sv.id} ELSE cleared]
                    /\ Abort
                    /\ UNCHANGED <<idx, done>>
            ELSE \* lines 419-421: "parent not found" (False); printed only
                 /\ log' = Append(log, Ev("noparent", "dst", sv.id, sv.parent_id,
                                          {}, FALSE, TRUE))
                 /\ idx' = idx + 1
                 /\ UNCHANGED <<pc, done, dst, status>>
    /\ UNCHANGED <<pipe, opts, uuids, fsInv, todo, subvols, new_mnt,
                   exitfuncs, mounted, src>>

\* lines 439-443: remove the staging root if it is empty; main returns
RmdirBase ==
    /\ pc = "rmdir_base"
    /\ dst' = [dst EXCEPT !.svbase = @ /\ (opts.dry_run \/ dst.dirs # {})]
    /\ pc' = "exit"
    /\ status' = 0
    /\ UNCHANGED <<pipe, opts, uuids, fsInv, idx, todo, subvols, done, new_mnt,
                   exitfuncs, mounted, src, log>>

----------------------------------------------------------------------------
(* Process exit *)

\* mutant: the handlers run in the order of registration
NextExitFunc_Fifo(fs) == 1

\* atexit: the handler run next is the one registered last
NextExitFunc(fs) == Len(fs)

\* one atexit handler; an exception in a handler is printed and the
\* remaining handlers still run
RunExit ==
    /\ pc = "exit"
    /\ IF exitfuncs = <<>>
       THEN /\ pc' = "ended"
            /\ UNCHANGED <<idx, exitfuncs, mounted, src, log>>
       ELSE LET k == NextExitFunc(exitfuncs)
                f == exitfuncs[k]
            IN
            /\ exitfuncs' = [i \in 1..(Len(exitfuncs) - 1) |->
                                IF i < k THEN exitfuncs[i] ELSE exitfuncs[i + 1]]
            /\ CASE f = "set_all_ro_false" ->
                      /\ pc' = "unlock"
                      /\ idx' = 1
                      /\ UNCHANGED <<mounted, src, log>>
                 [] f = "delete_snap" ->
                      \E ok \in Outcomes(0) :
                      /\ ("old" \in mounted) \/ ~ok
                      /\ log' = Append(log, Ev("delete", "src", 0, 0, {}, TRUE, ok))
                      /\ src' = [src EXCEPT !.snap = @ /\ ~ok]
                      /\ UNCHANGED <<pc, idx, mounted>>
                 [] f = "umount_old" ->
                      \* umount_root_subvol: a failing umount is swallowed
                      \E ok \in Outcomes(0) :
                      /\ log' = Append(log, Ev("umount", "src", 0, 0, {}, TRUE, ok))
                      /\ mounted' = IF ok THEN mounted \ {"old"} ELSE mounted
                      /\ UNCHANGED <<pc, idx, src>>
                 [] f = "umount_new" ->
                      \E ok \in Outcomes(0) :
                      /\ log' = Append(log, Ev("umount", "dst", 0, 0, {}, TRUE, ok))
                      /\ mounted' = IF ok THEN mounted \ {"new"} ELSE mounted
                      /\ UNCHANGED <<pc, idx, src>>
    /\ UNCHANGED <<pipe, opts, uuids, fsInv, todo, subvols, done, new_mnt, dst, status>>

\* a signal whose default action terminates the process (SIGTERM, SIGHUP,
\* SIGKILL): the program installs no handler, and atexit functions are not
\* called when the interpreter is killed by a signal
Kill ==
    /\ pc \notin {"ended", "killed"}
    /\ pc' = "killed"
    /\ UNCHANGED <<pipe, opts, uuids, fsInv, idx, todo, subvols, done, new_mnt,
                   exitfuncs, mounted, src, dst, log, status>>

----------------------------------------------------------------------------
(* do_send_recv: the pipeline "btrfs send | btrfs receive" *)
(*                                                                         *)
(* Three processes: the program (parent), the sender and the receiver.    *)
(* The sender's stdout is a pipe read by the receiver; below verbosity 2   *)
(* the stderr of each child is a pipe whose read end the parent holds.     *)
(* A write to a full pipe blocks; a read of an empty pipe blocks until     *)
(* every write end is closed.                                              *)

\* no do_send_recv in progress
NoPipe ==
    [verbose |-> 0, ppc |-> "idle", send |-> "none", recv |-> "none",
     sOut |-> 0, sErr |-> 0, rErr |-> 0,
     outBuf |-> 0, sErrBuf |-> 0, rErrBuf |-> 0,
     sRc |-> -1, rRc |-> -1, closed |-> FALSE, collected |-> {}]

\* lines 264-272: stderr of the children is subprocess.PIPE unless
\* opts.verbose > 1, where it is a log file
StderrIsPipe(verbose) == ~(verbose > LogVerbosity - 1)

\* a child can write one more unit to its stderr
ErrRoom(buf) == ~StderrIsPipe(pipe.verbose) \/ buf < PipeCap

\* what one written unit adds to the stderr pipe
ErrFill == IF StderrIsPipe(pipe.verbose) THEN 1 ELSE 0

\* line 280: send = Popen(send_cmd, stdout=PIPE, stderr=send_log)
PopenSend ==
    /\ pipe.ppc = "popen_send"
    /\ pipe' = [pipe EXCEPT !.ppc = "popen_recv", !.send = "running"]
    /\ UNCHANGED mainvars

\* line 282: recv = Popen(recv_cmd, stdin=send.stdout, stderr=recv_log)
PopenRecv ==
    /\ pipe.ppc = "popen_recv"
    /\ pipe' = [pipe EXCEPT !.ppc = "close", !.recv = "running"]
    /\ UNCHANGED mainvars

\* line 284: send.stdout.close(), the parent's copy of the read end
CloseStdout ==
    /\ pipe.ppc = "close"
    /\ pipe' = [pipe EXCEPT !.ppc = "communicate", !.closed = TRUE]
    /\ UNCHANGED mainvars

\* line 285: recv.communicate() reads the receiver's stderr to its end (it is
\* the only stream of recv that is a pipe), then waits for the receiver
Communicate ==
    /\ pipe.ppc = "communicate"
    /\ \/ /\ pipe.rErrBuf > 0
          /\ pipe' = [pipe EXCEPT !.rErrBuf = @ - 1]
       \/ /\ pipe.rErrBuf = 0
          /\ pipe.recv = "exited"
          /\ pipe' = [pipe EXCEPT !.ppc = "wait", !.collected = @ \cup {"recv"}]
    /\ UNCHANGED mainvars

\* line 286: send.wait(); send.stderr is read only afterwards (line 297)
Wait ==
    /\ pipe.ppc = "wait"
    /\ pipe.send = "exited"
    /\ pipe' = [pipe EXCEPT !.ppc = "returned", !.collected = @ \cup {"send"}]
    /\ UNCHANGED mainvars

\* the sender writes one unit of the stream to its stdout
SendWrite ==
    /\ pipe.send = "running"
    /\ pipe.sOut > 0
    /\ pipe.outBuf < PipeCap
    /\ pipe' = [pipe EXCEPT !.sOut = @ - 1, !.outBuf = @ + 1]
    /\ UNCHANGED mainvars

\* the sender writes one unit of messages to its stderr
SendLog ==
    /\ pipe.send = "running"
    /\ pipe.sErr > 0
    /\ ErrRoom(pipe.sErrBuf)
    /\ pipe' = [pipe EXCEPT !.sErr = @ - 1, !.sErrBuf = @ + ErrFill]
    /\ UNCHANGED mainvars

\* the sender has written everything and exits
SendExit ==
    /\ pipe.send = "running"
    /\ pipe.sOut = 0 /\ pipe.sErr = 0
    /\ \E rc \in {0, 1} : pipe' = [pipe EXCEPT !.send = "exited", !.sRc = rc]
    /\ UNCHANGED mainvars

\* the receiver reads one unit of the stream from its stdin
RecvRead ==
    /\ pipe.recv = "running"
    /\ pipe.outBuf > 0
    /\ pipe' = [pipe EXCEPT !.outBuf = @ - 1]
    /\ UNCHANGED mainvars

\* the receiver writes one unit of messages to its stderr
RecvLog ==
    /\ pipe.recv = "running"
    /\ pipe.rErr > 0
    /\ ErrRoom(pipe.rErrBuf)
    /\ pipe' = [pipe EXCEPT !.rErr = @ - 1, !.rErrBuf = @ + ErrFill]
    /\ UNCHANGED mainvars

\* the receiver has read its stdin to the end (the only write end left, the
\* sender's, is closed) and exits
RecvExit ==
    /\ pipe.recv = "running"
    /\ pipe.outBuf = 0 /\ pipe.send = "exited"
    /\ pipe.rErr = 0
    /\ \E rc \in {0, 1} : pipe' = [pipe EXCEPT !.recv = "exited", !.rRc = rc]
    /\ UNCHANGED mainvars

----------------------------------------------------------------------------
(* Initial states *)

\* The destination before the run.  With --snap-base the staging directory
\* may be the one an earlier, aborted run of the snapshot strategy over the
\* same inventory left behind: it holds the copies of the first k subvolumes
\* that run visited.  With goals, the destination may already hold, at their
\* goal paths, copies of subvolumes the planner of the snapshot strategy does
\* not visit (made by an earlier clone).
InitWith(invs, optset, goals) ==
    /\ opts \in optset
    /\ uuids \in { [old |-> 1, new |-> n] : n \in {1, 2} }
    /\ fsInv \in invs
    /\ pc = "mount_old"
    /\ idx = 0
    /\ todo = <<>>
    /\ subvols = <<>>
    /\ done = {}
    /\ new_mnt = "new"
    /\ exitfuncs = <<>>
    /\ mounted = {}
    /\ src = [ro |-> { fsInv[i].id : i \in { j \in 1..Len(fsInv) : fsInv[j].ro } },
              snap |-> FALSE]
    /\ LET plan == SnapPlan(SnapRoots(fsInv), fsInv) IN
       \E k \in 0..Len(plan) :
         /\ k > 0 => opts.snap_base
         /\ LET pre == { plan[i].sv : i \in 1..k }
                unplanned == Ids(fsInv) \ { plan[i].sv : i \in 1..Len(plan) }
            IN  \E there \in (IF goals /\ opts.strategy = "snapshot"
                               THEN SUBSET unplanned ELSE {{}}) :
                dst = [snap    |-> "absent",
                       top     |-> {},
                       svbase  |-> opts.snap_base,
                       dirs    |-> pre,
                       staged  |-> pre,
                       goal    |-> there,
                       ro      |-> { id \in pre \cup there : ById(fsInv, id).ro }]
    /\ log = <<>>
    /\ status = -1
    /\ pipe = NoPipe

\* whole runs: every option; the subvolumes differ in ro and in parent_uuid
Init ==
    InitWith(UNION { Inventories(n, "any", FALSE, "any", FALSE) : n \in 0..MaxSubvols },
             OptChoices(BOOLEAN, BOOLEAN, BOOLEAN), FALSE)

\* the snapshot planner on families of snapshots
InitSnap ==
    InitWith(Inventories(SnapSubvols, "local", FALSE, "none", TRUE),
             OptChoices({FALSE}, {FALSE}, {FALSE}), FALSE)

\* the tree placer on nested subvolumes
InitPlace ==
    InitWith(Inventories(PlaceSubvols, "none", TRUE, "uniform", FALSE),
             OptChoices({FALSE}, BOOLEAN, {FALSE}), FALSE)

\* a second clone onto a destination that holds copies from an earlier one
InitRerun ==
    InitWith(Inventories(RerunSubvols, "any", TRUE, "none", FALSE),
             OptChoices({FALSE}, {FALSE}, {FALSE}), TRUE)

\* do_send_recv(old_snap, new) of send_root is entered, past line 277: the
\* children write any amount of data up to MaxData to each of their streams
InitPipe ==
    /\ opts \in { o \in OptChoices({FALSE}, BOOLEAN, {FALSE}) : o.strategy = "snapshot" }
    /\ uuids = [old |-> 1, new |-> 2]
    /\ fsInv = <<>>
    /\ pc = "root_send"
    /\ idx = 0
    /\ todo = <<>>
    /\ subvols = <<>>
    /\ done = {}
    /\ new_mnt = "new"
    /\ exitfuncs = <<"umount_old", "umount_new", "delete_snap">>
    /\ mounted = {"old", "new"}
    /\ src = [ro |-> {}, snap |-> TRUE]
    /\ dst = [snap |-> "absent", top |-> {}, svbase |-> FALSE, dirs |-> {},
              staged |-> {}, goal |-> {}, ro |-> {}]
    /\ log = << Ev("mount", "src", 0, 0, {}, TRUE, TRUE),
                Ev("mount", "dst", 0, 0, {}, TRUE, TRUE),
                Ev("snapshot", "src", 0, 0, {}, TRUE, TRUE) >>
    /\ status = -1
    /\ pipe \in { [NoPipe EXCEPT !.verbose = v, !.ppc = "popen_send",
                                 !.sOut = a, !.sErr = b, !.rErr = c] :
                     v \in 0..LogVerbosity, a \in 0..MaxData,
                     b \in 0..MaxData, c \in 0..MaxData }

----------------------------------------------------------------------------
(* Specifications *)

Next ==
    \/ MountOld
    \/ MountNew
    \/ UuidCheck
    \/ RootSnapshot
    \/ RootSendRecv
    \/ RootPlace
    \/ GetSubvols
    \/ SetAllRoTrue
    \/ SendSubvolParent
    \/ SnapInit
    \/ SendSubvolSnap
    \/ PlaceInit
    \/ MoveToTreePos
    \/ RmdirBase
    \/ RunExit
    \/ SetAllRoFalse
    \/ Kill

Spec == Init /\ [][Next]_vars

SpecSnap == InitSnap /\ [][Next]_vars

SpecPlace == InitPlace /\ [][Next]_vars

SpecRerun == InitRerun /\ [][Next]_vars

\* one do_send_recv: the parent and the two children, interleaved
NextPipe ==
    \/ PopenSend
    \/ PopenRecv
    \/ CloseStdout
    \/ Communicate
    \/ Wait
    \/ SendWrite
    \/ SendLog
    \/ SendExit
    \/ RecvRead
    \/ RecvLog
    \/ RecvExit

SpecPipe == InitPipe /\ [][NextPipe]_vars

----------------------------------------------------------------------------
(* Vocabulary of the properties *)

\* the process is gone: it exited, or a signal terminated it
RunEnded == pc \in {"ended", "killed"}

\* positions of the main program after send_root has returned
AfterRoot == {"get_subvols", "lock", "parent", "snap_init", "snap",
              "place_init", "place", "rmdir_base"}

\* positions of the main program after set_all_ro(True) has returned
AfterLock == {"parent", "snap_init", "snap", "place_init", "place", "rmdir_base"}

Events(op) == { i \in 1..Len(log) : log[i].op = op }

\* send/receive jobs of inventoried subvolumes (not of the root snapshot)
SubvolSends == { i \in Events("send") : log[i].sv # 0 }

\* ids of the source subvolumes that were writable before the run
Writable == { fsInv[i].id : i \in { j \in 1..Len(fsInv) : ~fsInv[j].ro } }

ReadOnly == { fsInv[i].id : i \in { j \in 1..Len(fsInv) : fsInv[j].ro } }

\* the property-set ro=true on source subvolume w is in the log before i
LockedBefore(w, i) ==
    \E j \in 1..(i - 1) :
        /\ log[j].op = "propset" /\ log[j].side = "src"
        /\ log[j].sv = w /\ log[j].arg = 1 /\ log[j].ok

\* a job for q that completed is in the log before job i
SentBefore(q, i) ==
    \E j \in 1..(i - 1) :
        /\ log[j].op = "send" /\ log[j].sv = q
        /\ log[j].run /\ log[j].ok

\* the references job i names: its parent and its clone sources
Refs(i) == ({log[i].arg} \cup log[i].clones) \ {0}

----------------------------------------------------------------------------
(* C1 *)

\* C1 (as claimed): once the run has ended, by success, by a failed step or
\* by a signal, and no property-set command has failed, every inventoried
\* subvolume that was writable is writable again on the source.
C1_RoRoundTrip ==
    (RunEnded /\ \A i \in Events("propset") : log[i].ok)
        => \A i \in 1..Len(subvols) :
              ~subvols[i].ro => subvols[i].id \notin src.ro

----------------------------------------------------------------------------
(* C2 *)

\* the send jobs of inventoried subvolumes, in the order issued
SubvolJobs == SelectSeq(log, LAMBDA e : e.op = "send" /\ e.sv # 0)

\* a was created after b: the order of (creation_gen, id)
Newer(a, b) == a.ogen > b.ogen \/ (a.ogen = b.ogen /\ a.id > b.id)

\* a and b are snapshots of the same inventoried subvolume
Siblings(a, b) == a.parent_uuid = b.parent_uuid /\ a.parent_uuid \in Ids(fsInv)

RECURSIVE DescendsFrom(_, _, _)
\* d is a, or a snapshot of a snapshot ... of a (n bounds the walk)
DescendsFrom(d, a, n) ==
    \/ d.id = a.id
    \/ /\ n > 0
       /\ d.parent_uuid \in Ids(fsInv)
       /\ DescendsFrom(ById(fsInv, d.parent_uuid), a, n - 1)

\* the parent the claim gives the job of s: the sibling created next after
\* s, or the progenitor when s is the newest snapshot of it
ClaimedParent(s) ==
    LET newer == { i \in 1..Len(fsInv) : Siblings(fsInv[i], s) /\ Newer(fsInv[i], s) }
    IN  IF s.parent_uuid \notin Ids(fsInv) THEN 0
        ELSE IF newer = {} THEN s.parent_uuid
        ELSE fsInv[CHOOSE i \in newer :
                      \A j \in newer : j = i \/ Newer(fsInv[j], fsInv[i])].id

\* a progenitor and at least three snapshots of it, one per generation
SnapshotFamily ==
    /\ Len(fsInv) >= 4
    /\ fsInv[1].parent_uuid = NoUuid
    /\ \A k \in 2..Len(fsInv) :
          /\ fsInv[k].parent_uuid = fsInv[1].uuid
          /\ fsInv[k].ogen > fsInv[k - 1].ogen

\* C2: under the snapshot strategy every job of a snapshot names as parent
\* and as only clone source the sibling sent just before it (the next newer
\* one by (creation_gen, id)), or the progenitor for the newest snapshot, and
\* a job of a root names none; the jobs of a snapshot and of all its
\* descendants come before the job of any older sibling; for a progenitor P
\* and snapshots g1 < g2 < ... of P the jobs of a finished planner are
\* (P, none), (newest, P), ..., (g2, g3), (g1, g2).
C2_SnapshotOrder ==
    opts.strategy = "snapshot" =>
        LET jobs == SubvolJobs
            n == Len(fsInv)
        IN  /\ \A i \in 1..Len(jobs) :
                  /\ jobs[i].arg = ClaimedParent(ById(fsInv, jobs[i].sv))
                  /\ jobs[i].clones = {jobs[i].arg} \ {0}
            /\ \A j \in 1..Len(jobs), a \in 1..n :
                  (/\ Siblings(fsInv[a], ById(fsInv, jobs[j].sv))
                   /\ Newer(fsInv[a], ById(fsInv, jobs[j].sv)))
                  => \A i \in j..Len(jobs) :
                        ~DescendsFrom(ById(fsInv, jobs[i].sv), fsInv[a], n)
            /\ (SnapshotFamily /\ pc \in {"place_init", "place", "rmdir_base"}) =>
                  /\ Len(jobs) = n
                  /\ jobs[1].sv = fsInv[1].id /\ jobs[1].arg = 0
                  /\ \A k \in 2..n :
                        /\ jobs[k].sv = fsInv[n + 2 - k].id
                        /\ jobs[k].arg = jobs[k - 1].sv

\* the planner has finished on a progenitor with three or more snapshots,
\* every job having been executed
C2_Witness ==
    /\ opts.strategy = "snapshot"
    /\ SnapshotFamily
    /\ pc = "place_init"
    /\ Len(SubvolJobs) = Len(fsInv)
    /\ \A i \in 1..Len(SubvolJobs) : SubvolJobs[i].run /\ SubvolJobs[i].ok

----------------------------------------------------------------------------
(* C3 *)

\* C3 (as claimed): every executed send job that names a parent or a clone
\* source Q comes after a job for Q that completed in the same run.
C3_ParentSentBefore ==
    \A i \in Events("send") :
        log[i].run => \A q \in Refs(i) : SentBefore(q, i)

\* C3 (amended): every executed send job that names a parent or a clone
\* source Q comes after a job for Q that completed in the same run, or after
\* Q was found already staged on the destination and its transfer skipped.
C3_ParentAvailable ==
    \A i \in Events("send") :
        log[i].run =>
            \A q \in Refs(i) :
                \/ SentBefore(q, i)
                \/ \E j \in 1..(i - 1) : log[j].op = "exists" /\ log[j].sv = q

\* a job with a parent was received, the parent having been found staged
C3_Witness ==
    \E i \in Events("send") :
        /\ log[i].run /\ log[i].ok /\ log[i].arg # 0
        /\ \E j \in 1..(i - 1) : log[j].op = "exists" /\ log[j].sv = log[i].arg

----------------------------------------------------------------------------
(* C4 *)

\* C4 (as claimed): when the snapshot strategy has received every
\* subvolume and the tree placer has swept the inventory, every subvolume
\* is at its goal path and marked placed, and no staging directory remains
\* (the parent_id of every subvolume of an inventory is 5 or the id of
\* another subvolume of it).
C4_AllPlaced ==
    (/\ pc = "rmdir_base"
     /\ ~opts.dry_run
     /\ \A id \in Ids(subvols) : SentBefore(id, Len(log) + 1))
        => /\ dst.goal = Ids(subvols)
           /\ done = Ids(subvols)
           /\ dst.dirs = {}

----------------------------------------------------------------------------
(* C5 *)

\* C5 (as claimed): once the tree placer has moved the staged copy of a
\* subvolume that was inventoried ro, the copy at the goal path is ro.
C5_RoCopyKept ==
    \A i \in 1..Len(subvols) :
        (subvols[i].ro /\ subvols[i].id \in done) => subvols[i].id \in dst.ro

----------------------------------------------------------------------------
(* C6 *)

\* C6: after send_root has returned: without -t every same-device entry of
\* the received snapshot has been moved to the destination root, the
\* received snapshot has been deleted and the base of the later jobs is the
\* destination root; with -t nothing has been moved or deleted, the received
\* snapshot is kept (writable) and the base of the later jobs is the snapshot.
C6_TopLevel ==
    pc \in AfterRoot =>
        LET movable == { RootEntries[i].name :
                           i \in { j \in 1..Len(RootEntries) : RootEntries[j].samedev } }
            mvs == { i \in Events("mv") : log[i].sv = 0 }
            dels == { i \in Events("delete") : log[i].side = "dst" }
        IN  IF opts.t_given
            THEN /\ new_mnt = "new_snap"
                 /\ mvs = {} /\ dels = {}
                 /\ dst.top = {}
                 /\ ~opts.dry_run => dst.snap = "rw"
            ELSE /\ new_mnt = "new"
                 /\ Cardinality(mvs) = Cardinality(movable)
                 /\ Cardinality(dels) = 1
                 /\ ~opts.dry_run => (dst.top = movable /\ dst.snap = "absent")

\* a run without -t has merged the received snapshot and goes on
C6_Witness ==
    /\ pc = "lock"
    /\ ~opts.t_given /\ ~opts.dry_run
    /\ dst.top # {} /\ dst.snap = "absent"

----------------------------------------------------------------------------
(* C7 *)

\* C7 (as claimed): once the root snapshot has been created on the source
\* and the run has ended, by success, by a failed step or by a signal, a
\* delete of the snapshot has been executed, before the source was unmounted.
C7_SnapshotDeleted ==
    (RunEnded /\ \E i \in Events("snapshot") : log[i].ok)
        => \E j \in Events("delete") :
              /\ log[j].side = "src"
              /\ \A k \in 1..(j - 1) : ~(log[k].op = "umount" /\ log[k].side = "src")

----------------------------------------------------------------------------
(* C8 *)

\* C8: when both mounts report the same uuid, the only commands ever issued
\* are the two mounts and their unmounts: no snapshot exists on the source,
\* no ro property has changed, nothing has been sent to or changed on the
\* destination, the run fails, and at exit every mount made is unmounted.
C8_SameFsGuard ==
    uuids.old = uuids.new =>
        /\ \A i \in 1..Len(log) : log[i].op \in {"mount", "umount"}
        /\ ~src.snap
        /\ src.ro = ReadOnly
        /\ dst.snap = "absent" /\ dst.top = {} /\ dst.goal = {}
        /\ pc \notin AfterRoot
        /\ pc = "ended" =>
              /\ status = 1
              /\ \A i \in Events("mount") :
                    log[i].ok => \E j \in Events("umount") :
                                    j > i /\ log[j].side = log[i].side

\* a run on one file system has ended with both mounts made and released
C8_Witness ==
    /\ uuids.old = uuids.new
    /\ pc = "ended"
    /\ mounted = {}
    /\ Cardinality({ i \in Events("mount") : log[i].ok }) = 2

----------------------------------------------------------------------------
(* C9 *)

\* C9: no property-set command, ro=true or ro=false, is ever issued against
\* a source subvolume that was inventoried ro.
C9_RoUntouched ==
    \A i \in Events("propset") :
        log[i].side = "src" => log[i].sv \notin ReadOnly

\* a run over an inventory holding a ro and a writable subvolume has locked
\* and unlocked the source and ended
C9_Witness ==
    /\ pc = "ended"
    /\ ReadOnly # {} /\ Writable # {}
    /\ \E i \in Events("propset") : log[i].side = "src" /\ log[i].arg = 1
    /\ \E i \in Events("propset") : log[i].side = "src" /\ log[i].arg = 0

----------------------------------------------------------------------------
(* C10 *)

----------------------------------------------------------------------------
(* C11 *)

\* the jobs issued for the subvolume id
JobsOf(id) == { i \in SubvolSends : log[i].sv = id }

\* the ancestor chain of the subvolume id, by parent_uuid through the inventory
Chain(id) == Parents(ById(fsInv, id), fsInv, Len(fsInv))

\* C11 (as claimed): when the parent strategy has returned, every
\* inventoried subvolume has exactly one send/receive job, with no parent
\* when its ancestor chain is empty and otherwise with -p its first ancestor
\* and one -c for each ancestor of the chain.
C11_ParentCoversAll ==
    (opts.strategy = "parent" /\ status = 0) =>
        \A id \in Ids(fsInv) :
            /\ Cardinality(JobsOf(id)) = 1
            /\ \A i \in JobsOf(id) :
                  LET anc == Chain(id) IN
                  /\ log[i].arg = (IF anc = <<>> THEN 0 ELSE anc[1])
                  /\ log[i].clones = { anc[k] : k \in 1..Len(anc) }

----------------------------------------------------------------------------
(* C12 *)

\* subvolumes whose parent_uuid is present and names no inventoried subvolume
ForeignParented ==
    { fsInv[i].id : i \in { j \in 1..Len(fsInv) :
                              fsInv[j].parent_uuid \notin Ids(fsInv) \cup {NoUuid} } }

\* C12 (as claimed): when the planner of the snapshot strategy has returned,
\* nothing having been found staged beforehand, every inventoried subvolume
\* has exactly one send/receive job, and the job of a subvolume whose
\* parent_uuid names no inventoried subvolume has no parent.
C12_ForeignAreRoots ==
    (/\ opts.strategy = "snapshot"
     /\ pc \in {"place_init", "place", "rmdir_base"}
     /\ Events("exists") = {})
        => \A id \in Ids(fsInv) :
              /\ Cardinality(JobsOf(id)) = 1
              /\ id \in ForeignParented => \A i \in JobsOf(id) : log[i].arg = 0

----------------------------------------------------------------------------
(* C13 *)

\* what the tree placer did with a subvolume
PlacerOps == {"mv", "already", "notcreated", "noparent"}

\* the placer met a subvolume whose staged copy was never created, or whose
\* container was not placed
PlacementFailed ==
    \E i \in 1..Len(log) : log[i].op \in {"notcreated", "noparent"}

\* C13 (as claimed): after a placement failure the sweep goes on over the
\* remaining subvolumes, and the run ends with a non-zero exit status.
C13_PlacementFailureReported ==
    /\ (pc = "rmdir_base" /\ ~opts.dry_run) =>
          \A id \in Ids(subvols) :
              \E i \in 1..Len(log) : log[i].op \in PlacerOps /\ log[i].sv = id
    /\ (pc = "ended" /\ PlacementFailed) => status # 0

----------------------------------------------------------------------------
(* C16 *)

\* the moves of inventoried subvolumes the placer has executed
PlacerMoves == { i \in Events("mv") : log[i].sv # 0 /\ log[i].run /\ log[i].ok }

\* C16: the set of placed ids is closed under parent_id (the parent_id of a
\* placed subvolume is 5 or is placed), and every move the placer executes
\* is of a subvolume whose parent_id is 5 or whose container was moved to
\* its goal earlier in the same sweep.
C16_ContainerFirst ==
    /\ \A id \in done :
          \/ ById(fsInv, id).parent_id = TopLevelId
          \/ ById(fsInv, id).parent_id \in done
    /\ \A i \in Events("mv") :
          (log[i].sv # 0 /\ log[i].run) =>
              \/ ById(fsInv, log[i].sv).parent_id = TopLevelId
              \/ \E j \in PlacerMoves :
                    j < i /\ log[j].sv = ById(fsInv, log[i].sv).parent_id

\* a subvolume contained in another subvolume has been placed
C16_Witness ==
    \E id \in done : ById(fsInv, id).parent_id # TopLevelId

----------------------------------------------------------------------------
(* C17 *)

\* C17 (as claimed): a subvolume the placer found already moved counts as
\* placed: a subvolume contained in it is never reported as having an
\* unplaced parent afterwards.
C17_AlreadyPlacedCounts ==
    \A i \in Events("noparent") :
        ~ \E j \in Events("already") : j < i /\ log[j].sv = log[i].arg

----------------------------------------------------------------------------
(* C14 *)

\* send/receive jobs that were executed and failed
FailedSends == { i \in Events("send") : log[i].run /\ ~log[i].ok }

\* the commands of the exit actions
Unlocks == { i \in Events("propset") : log[i].side = "src" /\ log[i].arg = 0 }
SnapDeletes == { i \in Events("delete") : log[i].side = "src" }
Umounts(side) == { i \in Events("umount") : log[i].side = side }

\* a command op on side succeeded, so the exit action undoing it is registered
Registered(op, side) ==
    \E i \in Events(op) : log[i].side = side /\ log[i].ok

\* C14: after a send/receive job that failed, no send/receive job, no
\* property set on the destination and no step of the tree placer follows;
\* the exit actions run in reverse order of registration (ro reversal,
\* deletion of the source snapshot, unmount of the destination, unmount of
\* the source), and when the process has exited every registered one has run.
C14_FailStop ==
    \A f \in FailedSends :
        /\ \A k \in (f + 1)..Len(log) :
              /\ log[k].op \notin {"send", "exists"} \cup PlacerOps
              /\ log[k].op = "propset" => log[k].side = "src" /\ log[k].arg = 0
        /\ pc \in {"exit", "unlock", "ended", "killed"}
        /\ \A d \in SnapDeletes : \A u \in Unlocks : u < d
        /\ \A n \in Umounts("dst") : \A d \in SnapDeletes \cup Unlocks : d < n
        /\ \A o \in Umounts("src") : \A n \in SnapDeletes \cup Unlocks : n < o
        /\ \A o \in Umounts("src") :
              Registered("mount", "dst") => \E n \in Umounts("dst") : n < o
        /\ \A n \in Umounts("dst") :
              Registered("snapshot", "src") => \E d \in SnapDeletes : d < n
        /\ \A d \in SnapDeletes :
              Registered("list", "src") =>
                  \A w \in Writable : \E u \in Unlocks : u < d /\ log[u].sv = w
        /\ pc = "ended" =>
              /\ exitfuncs = <<>>
              /\ status = 1
              /\ Registered("mount", "src") => Umounts("src") # {}

\* the job of a subvolume has failed after the lock was taken on a writable
\* subvolume, and the process has exited through all four exit actions
C14_Witness ==
    /\ pc = "ended"
    /\ \E f \in FailedSends :
          /\ log[f].sv # 0
          /\ \E u \in Unlocks : u > f
    /\ SnapDeletes # {} /\ Umounts("dst") # {} /\ Umounts("src") # {}

----------------------------------------------------------------------------
(* C15 *)

\* the commands that change the source or the destination file system
Mutating == {"snapshot", "delete", "propset", "send", "mv"}

\* C15 (as claimed): with -n no mutating command is executed: no snapshot is
\* created or deleted, no property set, nothing sent or moved, and no
\* staging directory is made on the destination (the staging root exists
\* only if --snap-base names it, and it holds a directory only for each
\* copy staged before the run).
C15_DryRunPure ==
    opts.dry_run =>
        /\ \A i \in 1..Len(log) : log[i].op \in Mutating => ~log[i].run
        /\ ~src.snap
        /\ src.ro = ReadOnly
        /\ dst.svbase = opts.snap_base /\ dst.dirs = dst.staged
        /\ dst.goal = {} /\ dst.top = {} /\ dst.snap = "absent"

----------------------------------------------------------------------------
(* C18 *)

\* the subvolumes the property-set commands ro=yesno on the source were
\* issued for, in the order issued
RoVisits(yesno) ==
    LET cmds == SelectSeq(log, LAMBDA e : /\ e.op = "propset" /\ e.side = "src"
                                          /\ e.arg = (IF yesno THEN 1 ELSE 0))
    IN  [i \in 1..Len(cmds) |-> cmds[i].sv]

\* the writable subvolumes, in inventory order
WritableInOrder ==
    LET ws == SelectSeq(fsInv, LAMBDA x : ~x.ro) IN [i \in 1..Len(ws) |-> ws[i].id]

IsPrefix(s, t) == Len(s) <= Len(t) /\ \A i \in 1..Len(s) : s[i] = t[i]

\* C18 (as claimed): the lock visits the writable subvolumes in inventory
\* order, and the reversal run at exit visits them in exactly the reverse of
\* the inventory order, on every exit path.
C18_RoOrder ==
    /\ IsPrefix(RoVisits(TRUE), WritableInOrder)
    /\ IsPrefix(RoVisits(FALSE), Reverse(WritableInOrder))

----------------------------------------------------------------------------
(* C19 *)

\* property-set commands ro=true on the source
Locks == { i \in Events("propset") : log[i].side = "src" /\ log[i].arg = 1 }

\* C19: a property set ro=true that fails is the last command of the lock
\* and fails the run; the reversal still runs then; and once the reversal
\* has run, a set ro=false has been attempted on every writable inventoried
\* subvolume, whichever of these attempts failed.
C19_BestEffortReversal ==
    /\ \A i \in Locks :
          ~log[i].ok =>
              /\ \A j \in Locks : j <= i
              /\ \A k \in (i + 1)..Len(log) :
                    log[k].op \in {"propset", "delete", "umount"}
              /\ pc \in {"exit", "unlock", "ended", "killed"}
              /\ status = 1
    /\ (Registered("list", "src") /\ pc = "ended") =>
          \A w \in Writable : \E u \in Unlocks : log[u].sv = w

\* the reversal went on after a set ro=false that failed, and the run ended
C19_Witness ==
    /\ pc = "ended"
    /\ \E u \in Unlocks, v \in Unlocks : u < v /\ ~log[u].ok /\ log[v].ok

----------------------------------------------------------------------------
(* C20 *)

\* do_send_recv has got past send.wait() with both exit statuses
PipeReturned ==
    /\ pipe.ppc = "returned"
    /\ pipe.collected = {"send", "recv"}
    /\ pipe.sRc # -1 /\ pipe.rRc # -1

\* C20 (as claimed): the pipeline never deadlocks: as long as do_send_recv
\* has not returned with both exit statuses collected, one of the three
\* processes can take a step, whatever the children write and whatever the
\* verbosity.
C20_PipelineTerminates ==
    pipe.ppc # "idle" => (PipeReturned \/ ENABLED NextPipe)

====
